---- MODULE Spec2Model ----
(***************************************************************************)
(* Patient cohort simulator (src/backend/main.py).                         *)
(*                                                                         *)
(* The model covers the /simulate-cohort handler and the three functions   *)
(* it calls: generate_synthetic_patients, generate_cohort_summary and      *)
(* perform_simple_clustering.  The generator's loop is modelled one        *)
(* iteration per step; the summarizer and the grouper are operators that   *)
(* are applied both by the handler and by direct calls on arbitrary        *)
(* batches of records.                                                     *)
(*                                                                         *)
(* Numbers.  Python floats are modelled as exact rationals                 *)
(* [num |-> n, den |-> d] in lowest terms with d > 0; NaN is 0/0.  Python  *)
(* compares 0 and 0.0 equal, so the integer components of a cluster centre *)
(* are rationals too.  Floating-point rounding is not modelled.            *)
(* Strings built by formatting are sequences of one-character strings.     *)
(***************************************************************************)
EXTENDS Integers, Sequences, FiniteSets, TLC

\* ------------------------------------------------------------------ bounds

\* Largest cohort size a request asks for (the code accepts up to 1000).
MaxSize == 2

\* Longest batch handed directly to the summarizer or the grouper.
MaxBatch == 4

\* Ages of the records in directly supplied batches: negative, the four
\* values around the two thresholds, and above 100.
AgeValues == {-5, 0, 30, 31, 60, 61, 150}

\* The generator copies age, gender and the two lab values into the record
\* and never looks at them again, so one outcome of each draw is kept: the
\* cohorts then differ by their size and by the subsets drawn.
\* Outcome of np.random.normal for the age, in tenths of a year.
AgeDraws == {-15}

\* Outcome of np.random.choice(["M", "F"]).
GenderDraws == {"M"}

\* Outcomes of np.random.normal for glucose and cholesterol, in tenths.
GlucoseDraws == {987}
CholesterolDraws == {2004}

\* CohortRequest.size: Field(gt=0, le=1000).
SizeLimit == 1000

\* Standard deviations a request may carry, in tenths.
StdValues == {0, 150}

\* Condition and medication lists a request may carry.
ConditionPools ==
    { <<>>,
      <<"Diabetes", "Hypertension">>,
      <<"Diabetes", "Hypertension", "Asthma">>,
      <<"Diabetes", "Diabetes", "Hypertension">> }

MedicationPools ==
    { <<"Metformin">>,
      <<"Metformin", "Lisinopril">>,
      <<"Metformin", "Metformin">> }

\* ------------------------------------------------------------- arithmetic

Abs(n) == IF n < 0 THEN -n ELSE n

RECURSIVE GCD(_, _)
GCD(a, b) == IF b = 0 THEN a ELSE GCD(b, a % b)

\* A float holding the exact quotient n / d (d > 0), in lowest terms.
Rat(n, d) ==
    LET g == GCD(Abs(n), d)
    IN  [num |-> (IF n < 0 THEN -(Abs(n) \div g) ELSE n \div g), den |-> d \div g]

\* A Python int seen as a number.
FromInt(n) == [num |-> n, den |-> 1]

NaN == [num |-> 0, den |-> 0]

IsNaN(x) == x.den = 0

RECURSIVE SumSeq(_)
SumSeq(s) == IF s = <<>> THEN 0 ELSE Head(s) + SumSeq(Tail(s))

RECURSIVE SumSquares(_)
SumSquares(s) == IF s = <<>> THEN 0 ELSE Head(s) * Head(s) + SumSquares(Tail(s))

Range(s) == { s[k] : k \in 1..Len(s) }

\* ndarray.astype(int) and int(): truncation toward zero of a value given
\* in tenths.
AsTypeInt(tenths) ==
    IF tenths >= 0 THEN tenths \div 10 ELSE -((-tenths) \div 10)

\* float(): the value in tenths as a float.
AsFloat(tenths) == Rat(tenths, 10)

\* ----------------------------------------------------------------- numpy

\* Variant: the mean taken over one element too many.
NpMean_OffByOne(a) == IF Len(a) = 0 THEN NaN ELSE Rat(SumSeq(a), Len(a) + 1)

\* np.mean of an integer array: NaN (with a RuntimeWarning, no exception)
\* for an empty array.
NpMean(a) == IF Len(a) = 0 THEN NaN ELSE Rat(SumSeq(a), Len(a))

\* np.var (population, divide by N) of an integer array; np.std is its
\* square root, which is kept symbolic.
NpVar(a) ==
    IF Len(a) = 0 THEN NaN
    ELSE Rat(Len(a) * SumSquares(a) - SumSeq(a) * SumSeq(a), Len(a) * Len(a))

NpStd(a) == [sqrt_of |-> NpVar(a)]

\* np.min / np.max raise ValueError on a zero-size array.
NpMinMaxRaises(a) == Len(a) = 0

NpMin(a) == CHOOSE m \in Range(a) : \A x \in Range(a) : m <= x

NpMax(a) == CHOOSE m \in Range(a) : \A x \in Range(a) : m >= x

\* Variant: the upper end included, as random.randint does.
RandInt_Inclusive(low, high) == low .. high

\* np.random.randint(low, high): the integers low .. high - 1.
RandInt(low, high) == low .. (high - 1)

\* np.random.choice(a, size=k, replace=False) raises ValueError when a is
\* empty or when k exceeds the population.
ChoiceRaises(a, k) == Len(a) = 0 \/ k > Len(a)

ChoiceError(a, k) ==
    IF Len(a) = 0 THEN "ValueError: 'a' cannot be empty unless no samples are taken"
    ELSE "ValueError: Cannot take a larger sample than population when 'replace=False'"

\* Variant: the draw made with replacement.
ChoiceResults_WithReplacement(a, k) ==
    { [j \in 1..k |-> a[idx[j]]] : idx \in [1..k -> 1..Len(a)] }

\* Its possible results: the entries of a at k pairwise different
\* positions, in any order.
ChoiceResults(a, k) ==
    { [j \in 1..k |-> a[idx[j]]] :
        idx \in { f \in [1..k -> 1..Len(a)] :
                    \A x, y \in 1..k : x # y => f[x] # f[y] } }

\* pd.Series(s).value_counts().to_dict(): name -> number of occurrences,
\* for the names that occur.
ValueCounts(s) ==
    [x \in Range(s) |-> Cardinality({ k \in 1..Len(s) : s[k] = x })]

\* ------------------------------------------------------------- formatting

Digit(d) == <<"0", "1", "2", "3", "4", "5", "6", "7", "8", "9">>[d + 1]

\* str(n) for n >= 0, as a sequence of characters.
RECURSIVE Decimal(_)
Decimal(n) ==
    IF n < 10 THEN <<Digit(n)>> ELSE Decimal(n \div 10) \o <<Digit(n % 10)>>

\* Variant: the 0-based index itself in the id.
PatientId_ZeroBased(i) == <<"P">> \o Decimal(i)

\* f"P{i+1}" for the 0-based loop index i.
PatientId(i) == <<"P">> \o Decimal(i + 1)

\* ------------------------------------------------------------- the grouper

\* Variant: the senior band starting at 60.
ClusterAssignments_SeniorAt60(ages) ==
    LET zeros == [k \in 1..Len(ages) |-> 0]
        seniors == [k \in 1..Len(ages) |-> IF ages[k] >= 60 THEN 2 ELSE zeros[k]]
    IN  [k \in 1..Len(ages) |->
            IF ages[k] > 30 /\ ages[k] < 60 THEN 1 ELSE seniors[k]]

\* cluster_assignments: zeros, then 2 where age > 60, then 1 where
\* 30 < age <= 60, written in that order.
ClusterAssignments(ages) ==
    LET zeros == [k \in 1..Len(ages) |-> 0]
        seniors == [k \in 1..Len(ages) |-> IF ages[k] > 60 THEN 2 ELSE zeros[k]]
    IN  [k \in 1..Len(ages) |->
            IF ages[k] > 30 /\ ages[k] <= 60 THEN 1 ELSE seniors[k]]

\* ages[cluster_assignments == cluster_id]
RECURSIVE Masked(_, _, _)
Masked(ages, assignments, cluster_id) ==
    IF ages = <<>> THEN <<>>
    ELSE (IF Head(assignments) = cluster_id THEN <<Head(ages)>> ELSE <<>>)
         \o Masked(Tail(ages), Tail(assignments), cluster_id)

\* Variant: the mean taken without the test for an empty cluster.
ClusterCenter_Unguarded(cluster_ages) ==
    <<NpMean(cluster_ages), FromInt(0), FromInt(0), FromInt(0), FromInt(0)>>

\* One entry of cluster_centers.
ClusterCenter(cluster_ages) ==
    IF Len(cluster_ages) > 0
    THEN <<NpMean(cluster_ages), FromInt(0), FromInt(0), FromInt(0), FromInt(0)>>
    ELSE <<FromInt(0), FromInt(0), FromInt(0), FromInt(0), FromInt(0)>>

\* perform_simple_clustering: never raises, whatever the batch.
PerformSimpleClustering(batch) ==
    LET ages == [k \in 1..Len(batch) |-> batch[k].age]
        cluster_assignments == ClusterAssignments(ages)
    IN  [raised |-> FALSE,
         value |->
           [cluster_assignments |-> cluster_assignments,
            cluster_centers |->
              [c \in 1..3 |-> ClusterCenter(Masked(ages, cluster_assignments, c - 1))],
            cluster_labels |-> <<"Young", "Middle-aged", "Senior">>]]

\* ---------------------------------------------------------- the summarizer

RECURSIVE Flatten(_, _)
Flatten(batch, field) ==
    IF batch = <<>> THEN <<>>
    ELSE Head(batch)[field] \o Flatten(Tail(batch), field)

\* Variant: minimum and maximum taken with a default of 0, so that an
\* empty batch no longer raises.
GenerateCohortSummary_DefaultMin(batch) ==
    LET ages == [k \in 1..Len(batch) |-> batch[k].age]
    IN  [raised |-> FALSE,
         value |->
           [total_patients |-> Len(batch),
            age_stats |-> [mean |-> NpMean(ages), std |-> NpStd(ages),
                           min |-> IF Len(ages) = 0 THEN 0 ELSE NpMin(ages),
                           max |-> IF Len(ages) = 0 THEN 0 ELSE NpMax(ages)],
            condition_frequency |-> ValueCounts(Flatten(batch, "conditions")),
            medication_frequency |-> ValueCounts(Flatten(batch, "medications"))]]

\* generate_cohort_summary: the dictionary's values are evaluated in order
\* (mean, std, min, max); np.min raises on an empty array, the except
\* clause logs and re-raises.
GenerateCohortSummary(batch) ==
    LET ages == [k \in 1..Len(batch) |-> batch[k].age]
        conditions == Flatten(batch, "conditions")
        medications == Flatten(batch, "medications")
    IN  IF NpMinMaxRaises(ages)
        THEN [raised |-> TRUE,
              error |-> "ValueError: zero-size array to reduction operation minimum which has no identity"]
        ELSE [raised |-> FALSE,
              value |->
                [total_patients |-> Len(batch),
                 age_stats |-> [mean |-> NpMean(ages), std |-> NpStd(ages),
                                min |-> NpMin(ages), max |-> NpMax(ages)],
                 condition_frequency |-> ValueCounts(conditions),
                 medication_frequency |-> ValueCounts(medications)]]

\* ------------------------------------------------------------------ state

VARIABLES
    pc,                 \* "idle", "generate", "raised" or "done"
    request,            \* the CohortRequest being served: criteria and size
    ages,               \* generate_synthetic_patients: pre-generated ages
    genders,            \*   pre-generated genders
    condition_counts,   \*   pre-generated sizes of the condition subsets
    medication_counts,  \*   pre-generated sizes of the medication subsets
    glucose_values,     \*   pre-generated glucose values (tenths)
    cholesterol_values, \*   pre-generated cholesterol values (tenths)
    i,                  \*   loop index, 0-based
    patients,           \*   the list being built
    error,              \*   message of the exception in flight, "" if none
    response,           \* what /simulate-cohort answered; status 0: nothing yet
    call                \* a direct call of the summarizer or the grouper

vars == <<pc, request, ages, genders, condition_counts, medication_counts,
          glucose_values, cholesterol_values, i, patients, error, response, call>>

frame == <<ages, genders, condition_counts, medication_counts,
           glucose_values, cholesterol_values, i, patients>>

NoRequest ==
    [criteria |-> [age_std |-> 150, glucose_std |-> 150, cholesterol_std |-> 150,
                   conditions |-> <<>>, medications |-> <<>>],
     size |-> 0]

NoResponse == [status |-> 0]

NoCall == [fn |-> "none", arg |-> <<>>]

\* CohortCriteria / CohortRequest values a client may send.
Requests ==
    [criteria : [age_std : StdValues, glucose_std : StdValues,
                 cholesterol_std : StdValues,
                 conditions : ConditionPools, medications : MedicationPools],
     size : 0..MaxSize]

\* validate_std on the three standard deviations, and size: gt=0, le=1000.
RequestValid(req) ==
    /\ req.criteria.age_std > 0
    /\ req.criteria.glucose_std > 0
    /\ req.criteria.cholesterol_std > 0
    /\ req.size > 0
    /\ req.size <= SizeLimit

\* Records handed directly to the summarizer or the grouper.
BatchRecord(k, age) ==
    [id |-> PatientId(k - 1), age |-> age, gender |-> "F",
     conditions |-> <<"Asthma">>, medications |-> <<"Albuterol">>,
     lab_results |-> [glucose |-> AsFloat(1000), cholesterol |-> AsFloat(2000)]]

Batches ==
    UNION { { [k \in 1..n |-> BatchRecord(k, a[k])] : a \in [1..n -> AgeValues] } :
              n \in 0..MaxBatch }

Init ==
    /\ pc = "idle"
    /\ request = NoRequest
    /\ ages = <<>>
    /\ genders = <<>>
    /\ condition_counts = <<>>
    /\ medication_counts = <<>>
    /\ glucose_values = <<>>
    /\ cholesterol_values = <<>>
    /\ i = 0
    /\ patients = <<>>
    /\ error = ""
    /\ response = NoResponse
    /\ call = NoCall

\* ---------------------------------------------------------------- actions

\* POST /simulate-cohort with a body the pydantic models reject: the
\* handler never runs.
SimulateCohortRejected ==
    /\ pc = "idle"
    /\ \E req \in Requests :
         /\ ~RequestValid(req)
         /\ request' = req
    /\ response' = [status |-> 422, detail |-> "validation error"]
    /\ pc' = "done"
    /\ UNCHANGED <<frame, error, call>>

\* simulate_cohort calls generate_synthetic_patients, which pre-generates
\* its random arrays and enters the loop.
GenerateBegin ==
    /\ pc = "idle"
    /\ \E req \in Requests :
         /\ RequestValid(req)
         /\ request' = req
         /\ \E draws \in [1..req.size -> AgeDraws] :
              ages' = [k \in 1..req.size |-> AsTypeInt(draws[k])]
         /\ genders' \in [1..req.size -> GenderDraws]
         /\ condition_counts' \in [1..req.size -> RandInt(1, 4)]
         /\ medication_counts' \in [1..req.size -> RandInt(1, 3)]
         /\ glucose_values' \in [1..req.size -> GlucoseDraws]
         /\ cholesterol_values' \in [1..req.size -> CholesterolDraws]
    /\ patients' = <<>>
    /\ i' = 0
    /\ pc' = "generate"
    /\ UNCHANGED <<error, response, call>>

\* One iteration of the loop in which both draws succeed.
GenerateAppend ==
    /\ pc = "generate"
    /\ i < request.size
    /\ ~ChoiceRaises(request.criteria.conditions, condition_counts[i + 1])
    /\ ~ChoiceRaises(request.criteria.medications, medication_counts[i + 1])
    /\ \E conditions \in ChoiceResults(request.criteria.conditions, condition_counts[i + 1]),
          medications \in ChoiceResults(request.criteria.medications, medication_counts[i + 1]) :
         patients' = Append(patients,
            [id |-> PatientId(i),
             age |-> ages[i + 1],
             gender |-> genders[i + 1],
             conditions |-> conditions,
             medications |-> medications,
             lab_results |-> [glucose |-> AsFloat(glucose_values[i + 1]),
                              cholesterol |-> AsFloat(cholesterol_values[i + 1])]])
    /\ i' = i + 1
    /\ UNCHANGED <<pc, request, ages, genders, condition_counts, medication_counts,
                   glucose_values, cholesterol_values, error, response, call>>

\* One iteration in which np.random.choice raises: the conditions draw is
\* evaluated first, then the medications draw.
GenerateRaise ==
    /\ pc = "generate"
    /\ i < request.size
    /\ \/ /\ ChoiceRaises(request.criteria.conditions, condition_counts[i + 1])
          /\ error' = ChoiceError(request.criteria.conditions, condition_counts[i + 1])
       \/ /\ ~ChoiceRaises(request.criteria.conditions, condition_counts[i + 1])
          /\ ChoiceRaises(request.criteria.medications, medication_counts[i + 1])
          /\ error' = ChoiceError(request.criteria.medications, medication_counts[i + 1])
    /\ pc' = "raised"
    /\ UNCHANGED <<request, frame, response, call>>

\* Variant: the generator's except clause returns what was built so far
\* instead of re-raising, and the handler goes on with it.
SimulateCohortFail_ReturnsPartial ==
    /\ pc = "raised"
    /\ LET summary == GenerateCohortSummary(patients)
           clusters == PerformSimpleClustering(patients)
       IN  response' =
             IF summary.raised THEN [status |-> 500, detail |-> summary.error]
             ELSE [status |-> 200, cohort |-> patients,
                   clusters |-> clusters.value, summary |-> summary.value]
    /\ error' = ""
    /\ pc' = "done"
    /\ UNCHANGED <<request, frame, call>>

\* The exception leaves generate_synthetic_patients (logged, re-raised) and
\* is caught in simulate_cohort, which raises HTTPException(500).  The
\* generator's frame is left as it was when the draw failed; nothing of it
\* is in the response.
SimulateCohortFail ==
    /\ pc = "raised"
    /\ response' = [status |-> 500, detail |-> error]
    /\ error' = ""
    /\ pc' = "done"
    /\ UNCHANGED <<request, frame, call>>

\* The loop is over: generate_synthetic_patients returns patients, then
\* simulate_cohort runs the summarizer and the grouper and answers.
SimulateCohortReturn ==
    /\ pc = "generate"
    /\ i = request.size
    /\ LET summary == GenerateCohortSummary(patients)
           clusters == PerformSimpleClustering(patients)
       IN  response' =
             IF summary.raised THEN [status |-> 500, detail |-> summary.error]
             ELSE IF clusters.raised THEN [status |-> 500, detail |-> clusters.error]
             ELSE [status |-> 200, cohort |-> patients,
                   clusters |-> clusters.value, summary |-> summary.value]
    /\ pc' = "done"
    /\ UNCHANGED <<request, frame, error, call>>

\* generate_cohort_summary called on its own.
CallSummary ==
    /\ pc = "idle"
    /\ \E batch \in Batches :
         call' = [fn |-> "generate_cohort_summary", arg |-> batch,
                  result |-> GenerateCohortSummary(batch)]
    /\ pc' = "done"
    /\ UNCHANGED <<request, frame, error, response>>

\* perform_simple_clustering called on its own.
CallClustering ==
    /\ pc = "idle"
    /\ \E batch \in Batches :
         call' = [fn |-> "perform_simple_clustering", arg |-> batch,
                  result |-> PerformSimpleClustering(batch)]
    /\ pc' = "done"
    /\ UNCHANGED <<request, frame, error, response>>

\* The service is stateless: the next call starts from scratch.
NextCall ==
    /\ pc = "done"
    /\ pc' = "idle"
    /\ request' = NoRequest
    /\ ages' = <<>>
    /\ genders' = <<>>
    /\ condition_counts' = <<>>
    /\ medication_counts' = <<>>
    /\ glucose_values' = <<>>
    /\ cholesterol_values' = <<>>
    /\ i' = 0
    /\ patients' = <<>>
    /\ error' = ""
    /\ response' = NoResponse
    /\ call' = NoCall

Next ==
    \/ SimulateCohortRejected
    \/ GenerateBegin
    \/ GenerateAppend
    \/ GenerateRaise
    \/ SimulateCohortFail
    \/ SimulateCohortReturn
    \/ CallSummary
    \/ CallClustering
    \/ NextCall

Spec == Init /\ [][Next]_vars

\* ----------------------------------------------------------------- claims

Distinct(s) == \A x, y \in 1..Len(s) : x # y => s[x] # s[y]

DigitValue(c) ==
    CASE c = "0" -> 0 [] c = "1" -> 1 [] c = "2" -> 2 [] c = "3" -> 3
      [] c = "4" -> 4 [] c = "5" -> 5 [] c = "6" -> 6 [] c = "7" -> 7
      [] c = "8" -> 8 [] c = "9" -> 9

\* The number a sequence of decimal digits denotes.
RECURSIVE ParseDecimal(_)
ParseDecimal(cs) ==
    IF Len(cs) = 1 THEN DigitValue(cs[1])
    ELSE 10 * ParseDecimal(SubSeq(cs, 1, Len(cs) - 1)) + DigitValue(cs[Len(cs)])

\* The generator has completed its loop and is returning patients.
GeneratorReturns == pc = "generate" /\ i = request.size

\* A /simulate-cohort request was accepted and has been answered.
Answered == pc = "done" /\ request.size > 0 /\ response.status # 422

PoolTooShort ==
    \/ Len(request.criteria.conditions) < 3
    \/ Len(request.criteria.medications) < 2

PoolsValid ==
    /\ Len(request.criteria.conditions) >= 3
    /\ Distinct(request.criteria.conditions)
    /\ Len(request.criteria.medications) >= 2
    /\ Distinct(request.criteria.medications)

\* The records a call of the generator has returned.
ReturnedRecords ==
    IF GeneratorReturns THEN Range(patients)
    ELSE IF response.status = 200 THEN Range(response.cohort)
    ELSE {}

\* The band the grouping rule gives an age.
Band(age) == IF age > 60 THEN 2 ELSE IF 31 <= age /\ age <= 60 THEN 1 ELSE 0

Members(batch, band) == { k \in 1..Len(batch) : Band(batch[k].age) = band }

RECURSIVE SumOver(_, _)
SumOver(batch, ks) ==
    IF ks = {} THEN 0
    ELSE LET k == CHOOSE x \in ks : TRUE
         IN  batch[k].age + SumOver(batch, ks \ {k})

ZeroVector == [c \in 1..5 |-> FromInt(0)]

SummaryCall == call.fn = "generate_cohort_summary"

ClusteringCall == call.fn = "perform_simple_clustering"

\* C1: with fewer than 3 conditions or fewer than 2 medications the
\* generator never returns records and the request is never answered with
\* a cohort, whatever the subset sizes drawn.
C1_ShortPoolAlwaysFails ==
    (request.size >= 1 /\ PoolTooShort)
        => (~GeneratorReturns /\ response.status # 200)

\* C2 as stated: with conditions [Diabetes, Hypertension] and medications
\* [Metformin, Lisinopril] every accepted request is answered with the full
\* cohort, a summary counting it and one cluster assignment per record.
C2_TwoConditionsAlwaysSucceed ==
    (/\ request.criteria.conditions = <<"Diabetes", "Hypertension">>
     /\ request.criteria.medications = <<"Metformin", "Lisinopril">>)
        => /\ pc # "raised"
           /\ Answered =>
                /\ response.status = 200
                /\ Len(response.cohort) = request.size
                /\ response.summary.total_patients = request.size
                /\ Len(response.clusters.cluster_assignments) = request.size

\* C2 amended: with conditions [Diabetes, Hypertension, Asthma] and
\* medications [Metformin, Lisinopril] no draw raises and every accepted
\* request is answered with the full cohort, a summary counting it and one
\* cluster assignment per record.
C2_ThreeConditionsAlwaysSucceed ==
    (/\ request.criteria.conditions = <<"Diabetes", "Hypertension", "Asthma">>
     /\ request.criteria.medications = <<"Metformin", "Lisinopril">>)
        => /\ pc # "raised"
           /\ Answered =>
                /\ response.status = 200
                /\ Len(response.cohort) = request.size
                /\ response.summary.total_patients = request.size
                /\ Len(response.clusters.cluster_assignments) = request.size

C2_Witness ==
    /\ request.criteria.conditions = <<"Diabetes", "Hypertension", "Asthma">>
    /\ request.criteria.medications = <<"Metformin", "Lisinopril">>
    /\ Answered
    /\ request.size >= 2
    /\ response.status = 200

\* C3: with at least 3 distinct conditions and 2 distinct medications the
\* generator never raises and returns exactly size records, the k-th
\* (1-based) with the id "P" followed by the decimal digits of k, all ids
\* different.  The id depends on the loop index alone: its format is also
\* checked for every index a cohort of up to 1000 records has (once, in
\* the idle state), where reading the digits back gives each id's index,
\* so that no two indices share an id.
C3_CountAndIds ==
    /\ (request.size >= 1 /\ PoolsValid)
         => /\ pc # "raised"
            /\ GeneratorReturns =>
                 /\ Len(patients) = request.size
                 /\ \A k \in 1..Len(patients) :
                      /\ Head(patients[k].id) = "P"
                      /\ ParseDecimal(Tail(patients[k].id)) = k
                 /\ \A k, l \in 1..Len(patients) :
                      k # l => patients[k].id # patients[l].id
    /\ pc = "idle"
         => \A n \in 0..(SizeLimit - 1) :
              /\ Head(PatientId(n)) = "P"
              /\ ParseDecimal(Tail(PatientId(n))) = n + 1

C3_Witness == request.size >= 2 /\ PoolsValid /\ GeneratorReturns

\* C4 as stated: in every returned record the conditions are 1 to 3
\* entries of the configured list without a repeat, the medications 1 or 2
\* entries of the configured list without a repeat.
C4_SubsetsNeverRepeat ==
    \A p \in ReturnedRecords :
        /\ Len(p.conditions) \in {1, 2, 3}
        /\ Range(p.conditions) \subseteq Range(request.criteria.conditions)
        /\ Distinct(p.conditions)
        /\ Len(p.medications) \in {1, 2}
        /\ Range(p.medications) \subseteq Range(request.criteria.medications)
        /\ Distinct(p.medications)

\* C4 amended: the lengths and the membership hold for every returned
\* record; its conditions (medications) are free of repeats whenever the
\* configured conditions (medications) list is.
C4_SubsetsRepeatOnlyPoolRepeats ==
    \A p \in ReturnedRecords :
        /\ Len(p.conditions) \in {1, 2, 3}
        /\ Range(p.conditions) \subseteq Range(request.criteria.conditions)
        /\ Distinct(request.criteria.conditions) => Distinct(p.conditions)
        /\ Len(p.medications) \in {1, 2}
        /\ Range(p.medications) \subseteq Range(request.criteria.medications)
        /\ Distinct(request.criteria.medications) => Distinct(p.medications)

C4_Witness ==
    /\ PoolsValid
    /\ \E p \in ReturnedRecords : Len(p.conditions) = 3 /\ Len(p.medications) = 2

\* C5: the grouper called with no records fails.
C5_EmptyClusteringFails ==
    (ClusteringCall /\ Len(call.arg) = 0) => call.result.raised

\* C6: the summarizer called with no records fails, and no summary it
\* returns, alone or inside a response, has a NaN mean or deviation.
C6_EmptySummaryFails ==
    /\ SummaryCall =>
         /\ Len(call.arg) = 0 => call.result.raised
         /\ ~call.result.raised =>
              /\ ~IsNaN(call.result.value.age_stats.mean)
              /\ ~IsNaN(call.result.value.age_stats.std.sqrt_of)
    /\ response.status = 200 =>
         /\ ~IsNaN(response.summary.age_stats.mean)
         /\ ~IsNaN(response.summary.age_stats.std.sqrt_of)

C6_Witness == SummaryCall /\ Len(call.arg) = 0 /\ call.result.raised

\* C7: the grouper returns one assignment per record, decided by that
\* record's age alone: 2 above 60, 1 from 31 to 60, 0 up to 30 (so 30, 31,
\* 60, 61 give 0, 1, 1, 2), and the three member counts add up to the
\* number of records.
C7_AssignmentsByAge ==
    ClusteringCall =>
        /\ ~call.result.raised
        /\ LET batch == call.arg
               a == call.result.value.cluster_assignments
               count(c) == Cardinality({ k \in 1..Len(a) : a[k] = c })
           IN  /\ Len(a) = Len(batch)
               /\ \A k \in 1..Len(batch) :
                    /\ batch[k].age > 60 => a[k] = 2
                    /\ (31 <= batch[k].age /\ batch[k].age <= 60) => a[k] = 1
                    /\ batch[k].age <= 30 => a[k] = 0
                    /\ batch[k].age = 30 => a[k] = 0
                    /\ batch[k].age = 31 => a[k] = 1
                    /\ batch[k].age = 60 => a[k] = 1
                    /\ batch[k].age = 61 => a[k] = 2
               /\ count(0) + count(1) + count(2) = Len(batch)

C7_Witness ==
    /\ ClusteringCall
    /\ ~call.result.raised
    /\ Len(call.arg) = 4
    /\ { call.arg[k].age : k \in 1..4 } = {-5, 31, 60, 150}

\* C8: the grouper returns 3 centres of 5 components, the last four 0; the
\* first is the mean age of the cluster's members, 0 for a cluster without
\* members, so with all ages up to 30 the second and third centres are the
\* zero vector.
C8_ClusterCenters ==
    ClusteringCall =>
        /\ ~call.result.raised
        /\ LET batch == call.arg
               centers == call.result.value.cluster_centers
           IN  /\ Len(centers) = 3
               /\ \A c \in 1..3 :
                    /\ Len(centers[c]) = 5
                    /\ \A d \in 2..5 : centers[c][d] = FromInt(0)
                    /\ LET members == Members(batch, c - 1)
                           mean == centers[c][1]
                       IN  IF members = {} THEN mean = FromInt(0)
                           ELSE /\ mean.den > 0
                                /\ mean.num * Cardinality(members)
                                     = SumOver(batch, members) * mean.den
               /\ (\A k \in 1..Len(batch) : batch[k].age <= 30)
                    => centers[2] = ZeroVector /\ centers[3] = ZeroVector

C8_Witness ==
    /\ ClusteringCall
    /\ Len(call.arg) >= 2
    /\ \A k \in 1..Len(call.arg) : call.arg[k].age <= 30
    /\ \E k \in 1..Len(call.arg) : call.arg[k].age # 0
    /\ call.result.value.cluster_centers[2] = ZeroVector
    /\ call.result.value.cluster_centers[3] = ZeroVector

\* C9: for a batch of N >= 1 records the summarizer returns total_patients
\* N, the smallest and the largest age as min and max, and a mean equal to
\* the sum of the ages over N, which lies between min and max.
C9_SummaryStats ==
    (SummaryCall /\ Len(call.arg) >= 1) =>
        /\ ~call.result.raised
        /\ LET batch == call.arg
               N == Len(batch)
               agesOf == { batch[k].age : k \in 1..N }
               s == call.result.value
               mean == s.age_stats.mean
           IN  /\ s.total_patients = N
               /\ s.age_stats.min \in agesOf
               /\ \A x \in agesOf : s.age_stats.min <= x
               /\ s.age_stats.max \in agesOf
               /\ \A x \in agesOf : x <= s.age_stats.max
               /\ mean.den > 0
               /\ mean.num * N = SumOver(batch, 1..N) * mean.den
               /\ s.age_stats.min * mean.den <= mean.num
               /\ mean.num <= s.age_stats.max * mean.den

C9_Witness ==
    /\ SummaryCall
    /\ Len(call.arg) >= 3
    /\ ~call.result.raised
    /\ call.result.value.age_stats.min < 0
    /\ call.result.value.age_stats.max > 100
    /\ call.result.value.age_stats.mean.den > 1

\* C10: while an exception is in flight nothing has been answered; a
\* request whose loop stopped before the last index is answered with an
\* error that carries no cohort, summary or clusters; an answer with a
\* cohort comes only from a completed loop and holds exactly size records.
C10_AllOrNothing ==
    /\ pc = "raised" => (response = NoResponse /\ i < request.size)
    /\ (Answered /\ i < request.size) => response.status = 500
    /\ response.status = 500 => DOMAIN response = {"status", "detail"}
    /\ response.status = 200 =>
         /\ i = request.size
         /\ response.cohort = patients
         /\ Len(response.cohort) = request.size

C10_Witness ==
    /\ Answered
    /\ i >= 1
    /\ i < request.size
    /\ Len(patients) = i
    /\ response.status = 500
    /\ "cohort" \notin DOMAIN response

====
